---- MODULE Spec2Model ----
(***************************************************************************)
(* Model of the embedding-based similarity search of progress-tracker:     *)
(* AIService and GCPService in src/services/aiService.js.                  *)
(*                                                                         *)
(* Numbers.  A similarity is the JavaScript number                         *)
(*     dotProduct / (Math.sqrt(normA) * Math.sqrt(normB)).                 *)
(* It is kept as the record of the three accumulators the loop computes    *)
(* and is compared in exact arithmetic (see Gt): the rounding of IEEE      *)
(* doubles is not modelled.  NaN, which 0/0 produces, is a value of its    *)
(* own, with the comparison rules of JavaScript (every comparison with     *)
(* NaN is false, a comparator returning NaN counts as 0).                  *)
(*                                                                         *)
(* Optional values.  A JavaScript value that may be undefined/null is a    *)
(* record [has, vec]: Absent is undefined, Vec(v) is the array v.          *)
(***************************************************************************)
EXTENDS Integers, Sequences, FiniteSets, TLC

VARIABLES
    vecA,           \* cosineSimilarity: first argument
    vecB,           \* cosineSimilarity: second argument
    cosOut,         \* cosineSimilarity: returned value
    cosSvc,         \* which implementation produced cosOut ("none" before the call)
    bugEmbeddings,  \* searchSimilarBugs: the candidate list handed in by the caller
    provider,       \* what the embedding provider did for the query
    svc,            \* which implementation ran the search ("none" before the call)
    result,         \* the sequence searchSimilarBugs returned
    calls,          \* searchSimilarBugs: the calls running interleaved on one list
    bugStore,       \* the Bug collection: id -> document
    last,           \* bugs routes: the request handled last and its response
    updates,        \* PUT /:id of bugs: the requests in flight, one per client
    entries,        \* the WorkEntry collection, in order of insertion
    workResp,       \* POST / of work entries: the response sent last
    handler         \* POST /search-solution: what the handler called and sent

vars == <<vecA, vecB, cosOut, cosSvc, bugEmbeddings, provider, svc, result,
          calls, bugStore, last, updates, entries, workResp, handler>>

cosVars == <<vecA, vecB, cosOut, cosSvc>>
searchVars == <<bugEmbeddings, provider, svc, result>>
routeVars == <<bugStore, last, updates, entries, workResp, handler>>

----------------------------------------------------------------------------
(* Bounds *)

MaxDim == 2     \* longest vector given to cosineSimilarity
MaxVal == 2     \* vector entries range over -MaxVal..MaxVal
MaxCands == 4   \* longest candidate list given to searchSimilarBugs
MaxConcCands == 2   \* longest candidate list shared by interleaved calls
MaxBugs == 1    \* most documents in the Bug collection
MaxStored == 4  \* most bugs in the collection POST /search-solution reads
MaxEntries == 2 \* most documents in the WorkEntry collection

----------------------------------------------------------------------------
(* Optional vectors *)

Absent == [has |-> FALSE, vec |-> <<>>]
Vec(v) == [has |-> TRUE, vec |-> v]

Vals == (0 - MaxVal)..MaxVal

Vectors == UNION {[1..n -> Vals] : n \in 0..MaxDim}

OptVectors == {Absent} \cup {Vec(v) : v \in Vectors}

----------------------------------------------------------------------------
(* Numbers *)

NaN == [nan |-> TRUE, dot |-> 0, normA |-> 1, normB |-> 1]

\* the number dot / (sqrt(nA) * sqrt(nB)), nA > 0 and nB > 0
Quot(dot, nA, nB) == [nan |-> FALSE, dot |-> dot, normA |-> nA, normB |-> nB]

Zero == Quot(0, 1, 1)
One == Quot(1, 1, 1)

\* x * |x|: strictly monotone, so it orders like x
SignedSquare(x) == IF x < 0 THEN 0 - (x * x) ELSE x * x

\* s > t as JavaScript evaluates it: false when either side is NaN
Gt(s, t) ==
    /\ ~s.nan
    /\ ~t.nan
    /\ SignedSquare(s.dot) * (t.normA * t.normB)
         > SignedSquare(t.dot) * (s.normA * s.normB)

\* s === t for numbers: false when either side is NaN
NumEq(s, t) ==
    /\ ~s.nan
    /\ ~t.nan
    /\ SignedSquare(s.dot) * (t.normA * t.normB)
         = SignedSquare(t.dot) * (s.normA * s.normB)

\* s >= t
Ge(s, t) == Gt(s, t) \/ NumEq(s, t)

----------------------------------------------------------------------------
(* cosineSimilarity *)

\* the accumulation  acc += x[i] * y[i]  over i = 0 .. n-1
RECURSIVE SumProd(_, _, _)
SumProd(x, y, n) ==
    IF n = 0 THEN 0 ELSE SumProd(x, y, n - 1) + x[n] * y[n]

\* a plausible slip: normB accumulated from vecA
cosineSimilarityAI_normBfromA(a, b) ==
    IF ~a.has \/ ~b.has \/ Len(a.vec) # Len(b.vec) THEN Zero
    ELSE LET n == Len(a.vec)
             dotProduct == SumProd(a.vec, b.vec, n)
             normA == SumProd(a.vec, a.vec, n)
             normB == SumProd(a.vec, a.vec, n)
         IN  IF normA = 0 \/ normB = 0 THEN Zero
             ELSE Quot(dotProduct, normA, normB)

\* a plausible slip: the square roots are left out of the denominator
cosineSimilarityAI_noSqrt(a, b) ==
    IF ~a.has \/ ~b.has \/ Len(a.vec) # Len(b.vec) THEN Zero
    ELSE LET n == Len(a.vec)
             dotProduct == SumProd(a.vec, b.vec, n)
             normA == SumProd(a.vec, a.vec, n)
             normB == SumProd(b.vec, b.vec, n)
         IN  IF normA = 0 \/ normB = 0 THEN Zero
             ELSE Quot(dotProduct, normA * normA, normB * normB)

\* AIService.cosineSimilarity: the denominator is tested against 0
cosineSimilarityAI(a, b) ==
    IF ~a.has \/ ~b.has \/ Len(a.vec) # Len(b.vec) THEN Zero
    ELSE LET n == Len(a.vec)
             dotProduct == SumProd(a.vec, b.vec, n)
             normA == SumProd(a.vec, a.vec, n)
             normB == SumProd(b.vec, b.vec, n)
         IN  \* Math.sqrt(normA) * Math.sqrt(normB) === 0
             IF normA = 0 \/ normB = 0 THEN Zero
             ELSE Quot(dotProduct, normA, normB)

\* GCPService.cosineSimilarity: the division is unguarded.  A zero norm
\* means a vector of zeros (or of length 0), so dotProduct is 0 too and the
\* quotient is 0 / 0, which is NaN.
cosineSimilarityGCP(a, b) ==
    IF ~a.has \/ ~b.has \/ Len(a.vec) # Len(b.vec) THEN Zero
    ELSE LET n == Len(a.vec)
             dotProduct == SumProd(a.vec, b.vec, n)
             normA == SumProd(a.vec, a.vec, n)
             normB == SumProd(b.vec, b.vec, n)
         IN  IF normA = 0 \/ normB = 0 THEN NaN
             ELSE Quot(dotProduct, normA, normB)

----------------------------------------------------------------------------
(* generateEmbedding *)

\* What the embedding provider does for a text: it throws, or it returns a
\* response whose embedding is the optional vector `values`.
Throws == [kind |-> "throws", values |-> Absent]
Returns(v) == [kind |-> "returns", values |-> v]

\* AIService.generateEmbedding: result.embedding.values, or [] from the catch
generateEmbeddingAI(p) ==
    IF p.kind = "throws" THEN Vec(<<>>) ELSE p.values

\* GCPService.generateEmbedding: (...).embedding || [], or [] from the catch
generateEmbeddingGCP(p) ==
    IF p.kind = "throws" THEN Vec(<<>>)
    ELSE IF ~p.values.has THEN Vec(<<>>) ELSE p.values

----------------------------------------------------------------------------
(* Array.prototype.sort with the comparator (a, b) => b.similarity - a.similarity *)

\* a plausible slip: a.similarity - b.similarity, which sorts ascending
Comparator_ascending(a, b) ==
    IF Gt(a.similarity, b.similarity) THEN 1
    ELSE IF Gt(b.similarity, a.similarity) THEN -1
    ELSE 0

\* the sign of b.similarity - a.similarity; the difference is NaN when either
\* side is NaN, and sort treats a NaN from the comparator as +0
Comparator(a, b) ==
    IF Gt(b.similarity, a.similarity) THEN 1
    ELSE IF Gt(a.similarity, b.similarity) THEN -1
    ELSE 0

\* The comparator is consistent on s when "compares equal" is transitive:
\* a NaN compares equal to everything, so with a NaN present every two
\* other similarities must be equal.
ConsistentComparator(s) ==
    \/ \A i \in 1..Len(s) : ~s[i].similarity.nan
    \/ \A i, j \in 1..Len(s) :
          (~s[i].similarity.nan /\ ~s[j].similarity.nan)
          => NumEq(s[i].similarity, s[j].similarity)

\* x put into the sorted sequence s behind every element that does not
\* compare after it
RECURSIVE InsertSorted(_, _)
InsertSorted(s, x) ==
    IF s = <<>> THEN <<x>>
    ELSE IF Comparator(Head(s), x) > 0 THEN <<x>> \o s
    ELSE <<Head(s)>> \o InsertSorted(Tail(s), x)

\* the stable sort: elements inserted in their original order
RECURSIVE StableSort(_)
StableSort(s) ==
    IF s = <<>> THEN <<>>
    ELSE InsertSorted(StableSort(SubSeq(s, 1, Len(s) - 1)), s[Len(s)])

Orderings(s) ==
    LET n == Len(s)
        Bij == {f \in [1..n -> 1..n] : \A i, j \in 1..n : f[i] = f[j] => i = j}
    IN  {[i \in 1..n |-> s[f[i]]] : f \in Bij}

\* The arrays sort may produce.  With a consistent comparator the sort is
\* stable and its result is determined; with an inconsistent one the order
\* is implementation-defined (ECMAScript, Array.prototype.sort) and only
\* known to be a permutation.
SortOutcomes(s) ==
    IF ConsistentComparator(s) THEN {StableSort(s)} ELSE Orderings(s)

----------------------------------------------------------------------------
(* searchSimilarBugs *)

TopK == 3

\* the literal 0.3, as ThresholdNum / sqrt(ThresholdSq)
ThresholdNum == 3
ThresholdSq == 100
Threshold == Quot(ThresholdNum, ThresholdSq, 1)

\* .slice(0, k)
Slice(s, k) == SubSeq(s, 1, IF Len(s) < k THEN Len(s) ELSE k)

\* .filter(item => item.similarity > 0.3)
AboveThreshold(s) == SelectSeq(s, LAMBDA item : Gt(item.similarity, Threshold))

\* bugEmbeddings.map(...) of AIService
SimilaritiesAI(queryEmbedding, bugs) ==
    [i \in 1..Len(bugs) |->
        IF ~bugs[i].embedding.has \/ Len(bugs[i].embedding.vec) = 0
        THEN [bug |-> bugs[i], similarity |-> Zero]
        ELSE [bug |-> bugs[i],
              similarity |-> cosineSimilarityAI(queryEmbedding, bugs[i].embedding)]]

\* bugEmbeddings.map(...) of GCPService
SimilaritiesGCP(queryEmbedding, bugs) ==
    [i \in 1..Len(bugs) |->
        IF ~bugs[i].embedding.has \/ Len(bugs[i].embedding.vec) = 0
        THEN [bug |-> bugs[i], similarity |-> Zero]
        ELSE [bug |-> bugs[i],
              similarity |-> cosineSimilarityGCP(queryEmbedding, bugs[i].embedding)]]

\* a plausible slip: item.similarity >= 0.3
searchSimilarBugsAI_inclusive(p, bugs) ==
    LET queryEmbedding == generateEmbeddingAI(p)
    IN  IF ~queryEmbedding.has \/ Len(queryEmbedding.vec) = 0 THEN {<<>>}
        ELSE {SelectSeq(Slice(sorted, TopK),
                        LAMBDA item : Ge(item.similarity, Threshold)) :
                 sorted \in SortOutcomes(SimilaritiesAI(queryEmbedding, bugs))}

\* a plausible slip: the filter left out, as in GCPService
searchSimilarBugsAI_noFilter(p, bugs) ==
    LET queryEmbedding == generateEmbeddingAI(p)
    IN  IF ~queryEmbedding.has \/ Len(queryEmbedding.vec) = 0 THEN {<<>>}
        ELSE {Slice(sorted, TopK) :
                 sorted \in SortOutcomes(SimilaritiesAI(queryEmbedding, bugs))}

\* a plausible slip: .sort(...) left out
searchSimilarBugsAI_noSort(p, bugs) ==
    LET queryEmbedding == generateEmbeddingAI(p)
    IN  IF ~queryEmbedding.has \/ Len(queryEmbedding.vec) = 0 THEN {<<>>}
        ELSE {AboveThreshold(Slice(SimilaritiesAI(queryEmbedding, bugs), TopK))}

\* AIService.searchSimilarBugs: the set of arrays the call may return
searchSimilarBugsAI(p, bugs) ==
    LET queryEmbedding == generateEmbeddingAI(p)
    IN  IF ~queryEmbedding.has \/ Len(queryEmbedding.vec) = 0 THEN {<<>>}
        ELSE {AboveThreshold(Slice(sorted, TopK)) :
                 sorted \in SortOutcomes(SimilaritiesAI(queryEmbedding, bugs))}

\* a plausible slip: .slice(0, 3) left out
searchSimilarBugsGCP_noSlice(p, bugs) ==
    LET queryEmbedding == generateEmbeddingGCP(p)
    IN  SortOutcomes(SimilaritiesGCP(queryEmbedding, bugs))

\* GCPService.searchSimilarBugs: no test of the query embedding, no filter
searchSimilarBugsGCP(p, bugs) ==
    LET queryEmbedding == generateEmbeddingGCP(p)
    IN  {Slice(sorted, TopK) :
            sorted \in SortOutcomes(SimilaritiesGCP(queryEmbedding, bugs))}

----------------------------------------------------------------------------
(* Specification of the calls of cosineSimilarity *)

\* nothing stored and no request handled yet
IdleRoutes ==
    /\ bugStore = <<>>
    /\ last = [op |-> "none"]
    /\ updates = <<>>
    /\ entries = <<>>
    /\ workResp = [op |-> "none"]
    /\ handler = [op |-> "none"]

\* the callers whose calls interleave
Callers == {1, 2}

IdleCall ==
    [pc |-> "idle", svc |-> "none", given |-> <<>>, overlapped |-> FALSE,
     provider |-> [kind |-> "none", values |-> Absent], result |-> <<>>]

IdleCalls == calls = [c \in Callers |-> IdleCall]

IdleSearch ==
    /\ bugEmbeddings = <<>>
    /\ provider = [kind |-> "none", values |-> Absent]
    /\ svc = "none"
    /\ result = <<>>

CosInit ==
    /\ vecA \in OptVectors
    /\ vecB \in OptVectors
    /\ cosOut = Zero
    /\ cosSvc = "none"
    /\ IdleSearch
    /\ IdleCalls
    /\ IdleRoutes

CallCosineAI ==
    /\ cosSvc = "none"
    /\ cosOut' = cosineSimilarityAI(vecA, vecB)
    /\ cosSvc' = "AI"
    /\ UNCHANGED <<vecA, vecB>>
    /\ UNCHANGED searchVars
    /\ UNCHANGED calls
    /\ UNCHANGED routeVars

CallCosineGCP ==
    /\ cosSvc = "none"
    /\ cosOut' = cosineSimilarityGCP(vecA, vecB)
    /\ cosSvc' = "GCP"
    /\ UNCHANGED <<vecA, vecB>>
    /\ UNCHANGED searchVars
    /\ UNCHANGED calls
    /\ UNCHANGED routeVars

CosNext == CallCosineAI \/ CallCosineGCP

CosSpec == CosInit /\ [][CosNext]_vars

----------------------------------------------------------------------------
(* Specification of the calls of searchSimilarBugs *)

\* query embeddings the provider may return
Q1 == <<1, 0, 0, 0, 0>>
Q2 == <<0, 1, 0, 0, 0>>
QZero == <<0, 0, 0, 0, 0>>

ProviderOutcomes ==
    {Throws, Returns(Absent), Returns(Vec(<<>>)),
     Returns(Vec(Q1)), Returns(Vec(Q2)), Returns(Vec(QZero))}

\* embeddings a candidate may carry, with their similarity to Q1 and to Q2
EmbeddingPool ==
    {Absent,                        \* no embedding
     Vec(<<>>),                     \* empty embedding
     Vec(<<1>>),                    \* a length that matches no query
     Vec(<<0, 0, 0, 0, 0>>),        \* all zeros
     Vec(<<1, 0, 0, 0, 0>>),        \* 1 and 0
     Vec(<<4, 3, 0, 0, 0>>),        \* 0.8 and 0.6
     Vec(<<8, 6, 0, 0, 0>>),        \* 0.8 and 0.6 again
     Vec(<<3, 9, 3, 1, 0>>),        \* 0.3 exactly, and 0.9
     Vec(<<-1, 0, 0, 0, 0>>)}       \* -1 and 0

\* the five candidates of the scenario: similarity to Q1 of
\* 0.9, 0.8, 0.35, 0.2 and 0.1
S090 == Vec(<<9, 3, 3, 1, 0>>)
S080 == Vec(<<4, 3, 0, 0, 0>>)
S035 == Vec(<<7, 18, 5, 1, 1>>)
S020 == Vec(<<1, 4, 2, 2, 0>>)
S010 == Vec(<<1, 9, 3, 3, 0>>)
ScenarioPool == {S090, S080, S035, S020, S010}

IdleCos ==
    /\ vecA = Absent
    /\ vecB = Absent
    /\ cosOut = Zero
    /\ cosSvc = "none"

Init ==
    /\ IdleCos
    /\ IdleSearch
    /\ IdleCalls
    /\ IdleRoutes

\* the caller puts one more candidate on the list it will hand in; a
\* candidate's id is its position on the list
AddCandidate ==
    /\ svc = "none"
    /\ Len(bugEmbeddings) < MaxCands
    /\ \E e \in EmbeddingPool :
          bugEmbeddings' = Append(bugEmbeddings,
                                  [id |-> Len(bugEmbeddings) + 1, embedding |-> e])
    /\ UNCHANGED <<provider, svc, result>>
    /\ UNCHANGED cosVars
    /\ UNCHANGED calls
    /\ UNCHANGED routeVars

\* the same, for the candidates of the scenario, each of them once
AddScenarioCandidate ==
    /\ svc = "none"
    /\ \E e \in ScenarioPool :
          /\ \A i \in 1..Len(bugEmbeddings) : bugEmbeddings[i].embedding # e
          /\ bugEmbeddings' = Append(bugEmbeddings,
                                     [id |-> Len(bugEmbeddings) + 1, embedding |-> e])
    /\ UNCHANGED <<provider, svc, result>>
    /\ UNCHANGED cosVars
    /\ UNCHANGED calls
    /\ UNCHANGED routeVars

SearchAI ==
    /\ svc = "none"
    /\ \E p \in ProviderOutcomes :
          /\ provider' = p
          /\ result' \in searchSimilarBugsAI(p, bugEmbeddings)
    /\ svc' = "AI"
    /\ UNCHANGED bugEmbeddings
    /\ UNCHANGED cosVars
    /\ UNCHANGED calls
    /\ UNCHANGED routeVars

SearchGCP ==
    /\ svc = "none"
    /\ \E p \in ProviderOutcomes :
          /\ provider' = p
          /\ result' \in searchSimilarBugsGCP(p, bugEmbeddings)
    /\ svc' = "GCP"
    /\ UNCHANGED bugEmbeddings
    /\ UNCHANGED cosVars
    /\ UNCHANGED calls
    /\ UNCHANGED routeVars

Next == AddCandidate \/ SearchAI \/ SearchGCP

Spec == Init /\ [][Next]_vars

ScenarioNext == AddScenarioCandidate \/ SearchAI \/ SearchGCP

ScenarioSpec == Init /\ [][ScenarioNext]_vars

----------------------------------------------------------------------------
(* Properties of cosineSimilarity, checked under CosSpec *)

\* a vector of one or more entries, all of them 0
IsZeroVector(x) ==
    /\ x.has
    /\ Len(x.vec) >= 1
    /\ \A i \in 1..Len(x.vec) : x.vec[i] = 0

\* an array of one or more entries, not all of them 0
IsNonZeroVector(x) ==
    /\ x.has
    /\ \E i \in 1..Len(x.vec) : x.vec[i] # 0

\* undefined/null, or an array of length 0
IsAbsentOrEmpty(x) == ~x.has \/ Len(x.vec) = 0

\* C5: when the first argument is an all-zero vector, the value returned is
\* exactly 0 (and so not NaN), whatever the second argument and whichever
\* implementation ran.
C5_ZeroVectorGivesZero ==
    (cosSvc # "none" /\ IsZeroVector(vecA)) => NumEq(cosOut, Zero)

\* C6: when the two arguments differ in length, or either is absent or
\* empty (both empty included), the value returned is 0, whichever
\* implementation ran.
C6_MismatchOrEmptyGivesZero ==
    (/\ cosSvc # "none"
     /\ \/ IsAbsentOrEmpty(vecA)
        \/ IsAbsentOrEmpty(vecB)
        \/ Len(vecA.vec) # Len(vecB.vec))
    => NumEq(cosOut, Zero)

\* C9: for arrays of equal length the value AIService.cosineSimilarity
\* returned for (vecA, vecB) is the value it returns for (vecB, vecA), and
\* the call leaves both arguments as they were.
C9_Symmetric ==
    /\ [](( /\ cosSvc = "AI"
            /\ vecA.has
            /\ vecB.has
            /\ Len(vecA.vec) = Len(vecB.vec))
          => NumEq(cosOut, cosineSimilarityAI(vecB, vecA)))
    /\ [][vecA' = vecA /\ vecB' = vecB]_vars

C9_Witness ==
    /\ cosSvc = "AI"
    /\ vecA.has
    /\ vecB.has
    /\ Len(vecA.vec) = Len(vecB.vec)
    /\ vecA # vecB
    /\ cosOut.dot # 0
    /\ cosOut.normA # cosOut.normB

\* C10: for a non-zero vector a, cosineSimilarity(a, a) is 1: the dot
\* product is positive and its square is the product of the two squared
\* norms, in both implementations.
C10_SelfSimilarityIsOne ==
    (cosSvc # "none" /\ vecA = vecB /\ IsNonZeroVector(vecA))
    => /\ ~cosOut.nan
       /\ cosOut.dot > 0
       /\ cosOut.dot * cosOut.dot = cosOut.normA * cosOut.normB
       /\ NumEq(cosOut, One)

C10_Witness ==
    /\ cosSvc = "GCP"
    /\ vecA = vecB
    /\ IsNonZeroVector(vecA)
    /\ Len(vecA.vec) = MaxDim
    /\ cosOut.dot > 1

----------------------------------------------------------------------------
(* Properties of searchSimilarBugs, checked under Spec and ScenarioSpec *)

\* the query embedding generateEmbedding handed to the search that ran
QueryEmbedding ==
    IF svc = "GCP" THEN generateEmbeddingGCP(provider)
    ELSE generateEmbeddingAI(provider)

QueryAvailable == QueryEmbedding.has /\ Len(QueryEmbedding.vec) > 0

NoCandidateHasEmbedding ==
    \A i \in 1..Len(bugEmbeddings) : IsAbsentOrEmpty(bugEmbeddings[i].embedding)

\* C1: when the provider threw or returned an empty vector for the query,
\* the search returned the empty sequence, whichever implementation ran.
C1_NoQueryEmbeddingGivesEmpty ==
    (/\ svc # "none"
     /\ \/ provider = Throws
        \/ provider = Returns(Vec(<<>>)))
    => result = <<>>

\* C2: no match AIService.searchSimilarBugs returned has similarity <= 0.3.
C2_NoMatchAtOrBelowThreshold ==
    svc = "AI" =>
        \A i \in 1..Len(result) : ~Ge(Threshold, result[i].similarity)

\* a list of at most 3 candidates, one of them scoring exactly 0.3 and
\* another above it: the first is left out, the second returned
C2_Witness ==
    /\ svc = "AI"
    /\ provider = Returns(Vec(Q1))
    /\ Len(bugEmbeddings) <= TopK
    /\ \E i \in 1..Len(bugEmbeddings) :
          /\ NumEq(cosineSimilarityAI(Vec(Q1), bugEmbeddings[i].embedding), Threshold)
          /\ \A j \in 1..Len(result) : result[j].bug.id # i
    /\ Len(result) >= 1

\* C3: the sequence returned has at most 3 elements.
C3_AtMostThree ==
    svc # "none" => Len(result) \in 0..TopK

C3_Witness ==
    /\ svc # "none"
    /\ Len(bugEmbeddings) > TopK
    /\ Len(result) = TopK

\* C4: the matches returned are in non-increasing order of similarity, and
\* of two returned matches with equal similarity the one that came first in
\* the input comes first.
C4_SortedAndStable ==
    svc # "none" =>
        \A i, j \in 1..Len(result) :
            i < j =>
                /\ Ge(result[i].similarity, result[j].similarity)
                /\ NumEq(result[i].similarity, result[j].similarity)
                      => result[i].bug.id < result[j].bug.id

\* C8 as stated: with a query embedding and candidates that all lack an
\* embedding, the search returned the empty sequence.
C8_NoEmbeddingsGivesEmpty ==
    (/\ svc # "none"
     /\ QueryAvailable
     /\ NoCandidateHasEmbedding)
    => result = <<>>

\* C8, amended: with a query embedding and candidates that all lack an
\* embedding, every candidate is scored 0; AIService returned the empty
\* sequence and GCPService returned the first min(3, n) candidates in input
\* order, each with similarity 0.
C8_NoEmbeddingsScoreZero ==
    (/\ svc # "none"
     /\ QueryAvailable
     /\ NoCandidateHasEmbedding)
    => /\ \A i \in 1..Len(bugEmbeddings) :
             /\ SimilaritiesAI(QueryEmbedding, bugEmbeddings)[i].similarity = Zero
             /\ SimilaritiesGCP(QueryEmbedding, bugEmbeddings)[i].similarity = Zero
       /\ svc = "AI" => result = <<>>
       /\ svc = "GCP" =>
             /\ Len(result) = (IF Len(bugEmbeddings) < TopK
                               THEN Len(bugEmbeddings) ELSE TopK)
             /\ \A i \in 1..Len(result) :
                   /\ result[i].bug = bugEmbeddings[i]
                   /\ result[i].similarity = Zero

C8_Witness ==
    /\ svc = "AI"
    /\ QueryAvailable
    /\ NoCandidateHasEmbedding
    /\ Len(bugEmbeddings) > TopK
    /\ \E i \in 1..Len(bugEmbeddings) : ~bugEmbeddings[i].embedding.has
    /\ \E i \in 1..Len(bugEmbeddings) : bugEmbeddings[i].embedding = Vec(<<>>)

\* the embeddings of the matches returned, in order
ResultEmbeddings == [i \in 1..Len(result) |-> result[i].bug.embedding]

\* C7 as stated: five candidates scoring 0.9, 0.8, 0.35, 0.2 and 0.1, in
\* any input order: without the threshold (GCPService) the result is the
\* three scoring 0.9, 0.8, 0.35 in that order, with the threshold
\* (AIService) the two scoring 0.9, 0.8.
C7_ScenarioTwoWithThreshold ==
    (/\ svc # "none"
     /\ provider = Returns(Vec(Q1))
     /\ {bugEmbeddings[i].embedding : i \in 1..Len(bugEmbeddings)} = ScenarioPool)
    => /\ svc = "GCP" => ResultEmbeddings = <<S090, S080, S035>>
       /\ svc = "AI" => ResultEmbeddings = <<S090, S080>>

\* C7, amended: five candidates scoring 0.9, 0.8, 0.35, 0.2 and 0.1, in any
\* input order: the result is the three scoring 0.9, 0.8, 0.35 in that
\* order, without the threshold (GCPService) and with it (AIService) alike,
\* 0.35 being above 0.3.
C7_ScenarioThreeEitherWay ==
    (/\ svc # "none"
     /\ provider = Returns(Vec(Q1))
     /\ {bugEmbeddings[i].embedding : i \in 1..Len(bugEmbeddings)} = ScenarioPool)
    => /\ ResultEmbeddings = <<S090, S080, S035>>
       /\ NumEq(result[1].similarity, Quot(9, 100, 1))
       /\ NumEq(result[2].similarity, Quot(8, 100, 1))
       /\ NumEq(result[3].similarity, Quot(35, 10000, 1))
       /\ Gt(result[3].similarity, Threshold)

\* the five candidates handed in lowest score first
C7_Witness ==
    /\ svc = "AI"
    /\ provider = Returns(Vec(Q1))
    /\ Len(bugEmbeddings) = 5
    /\ [i \in 1..5 |-> bugEmbeddings[i].embedding] = <<S010, S020, S035, S080, S090>>
    /\ Len(result) = 3

----------------------------------------------------------------------------
(* Further properties of searchSimilarBugs, checked under Spec *)

Min(a, b) == IF a < b THEN a ELSE b

\* the ids of the candidates returned
ResultIds == {result[i].bug.id : i \in 1..Len(result)}

\* C14: for n candidates GCPService.searchSimilarBugs returned min(3, n)
\* different candidates, each with the similarity the map gave it, and no
\* candidate left out has a greater similarity than one returned.
C14_TopThreeRegardlessOfScore ==
    svc = "GCP" =>
        LET sims == SimilaritiesGCP(QueryEmbedding, bugEmbeddings)
        IN  /\ Len(result) = Min(TopK, Len(bugEmbeddings))
            /\ Cardinality(ResultIds) = Len(result)
            /\ \A i \in 1..Len(result) : result[i] = sims[result[i].bug.id]
            /\ \A j \in 1..Len(bugEmbeddings) :
                  j \notin ResultIds =>
                     \A i \in 1..Len(result) :
                        ~Gt(sims[j].similarity, result[i].similarity)

\* C16: what AIService.searchSimilarBugs returned (sort, truncate to 3,
\* filter) is what filtering first gives: the candidates above the threshold,
\* sorted, truncated to 3.
C16_FilterCommutesWithTruncation ==
    svc = "AI" =>
        result = Slice(StableSort(AboveThreshold(
                          SimilaritiesAI(QueryEmbedding, bugEmbeddings))), TopK)

\* more than 3 candidates, one of the first three at or below the threshold
\* and a later one returned
C16_Witness ==
    /\ svc = "AI"
    /\ Len(bugEmbeddings) > TopK
    /\ \E i \in 1..Len(result) : result[i].bug.id > TopK
    /\ \E j \in 1..TopK :
          ~Gt(SimilaritiesAI(QueryEmbedding, bugEmbeddings)[j].similarity, Threshold)
    /\ Len(result) < TopK

\* s without the matches of similarity <= 0.3
WithoutAtOrBelowThreshold(s) ==
    SelectSeq(s, LAMBDA item : ~Ge(Threshold, item.similarity))

\* the same candidates with equal similarities, in the same order
SameMatches(s, t) ==
    /\ Len(s) = Len(t)
    /\ \A i \in 1..Len(s) :
          /\ s[i].bug = t[i].bug
          /\ NumEq(s[i].similarity, t[i].similarity)

\* C19: for the same provider outcome and candidate list, what AIService
\* returned is what GCPService returns with the matches of similarity <= 0.3
\* removed.
C19_ImplementationsDifferOnlyInThreshold ==
    svc = "AI" =>
        \A g \in searchSimilarBugsGCP(provider, bugEmbeddings) :
            SameMatches(result, WithoutAtOrBelowThreshold(g))

----------------------------------------------------------------------------
(* Specification of two calls of searchSimilarBugs interleaved on one list *)

\* a plausible slip: bugEmbeddings.sort(...) on the caller's array, in place
InputAfterSearch_sortedInPlace(list, queryEmbedding) ==
    LET sorted == StableSort(SimilaritiesAI(queryEmbedding, list))
    IN  [i \in 1..Len(list) |-> sorted[i].bug]

\* The caller's array after the call: map builds a new array, which sort
\* reorders and slice and filter copy; bugEmbeddings itself is only read.
InputAfterSearch(list, queryEmbedding) == list

\* the caller puts one more candidate on the list, before any call starts
AddSharedCandidate ==
    /\ \A c \in Callers : calls[c].pc = "idle"
    /\ Len(bugEmbeddings) < MaxConcCands
    /\ \E e \in EmbeddingPool :
          bugEmbeddings' = Append(bugEmbeddings,
                                  [id |-> Len(bugEmbeddings) + 1, embedding |-> e])
    /\ UNCHANGED <<provider, svc, result, calls>>
    /\ UNCHANGED cosVars
    /\ UNCHANGED routeVars

\* a call starts and suspends at  await this.generateEmbedding(query)
BeginCall(c) ==
    /\ calls[c].pc = "idle"
    /\ \E s \in {"AI", "GCP"} :
          calls' = [calls EXCEPT ![c] =
                       [@ EXCEPT !.pc = "awaiting",
                                 !.svc = s,
                                 !.given = bugEmbeddings,
                                 !.overlapped =
                                     \E o \in Callers : calls[o].pc = "awaiting"]]
    /\ UNCHANGED searchVars
    /\ UNCHANGED cosVars
    /\ UNCHANGED routeVars

\* the embedding arrives and the call runs to its return without suspending
ResumeCall(c) ==
    /\ calls[c].pc = "awaiting"
    /\ \E p \in ProviderOutcomes :
          /\ \E r \in (IF calls[c].svc = "AI"
                       THEN searchSimilarBugsAI(p, bugEmbeddings)
                       ELSE searchSimilarBugsGCP(p, bugEmbeddings)) :
                calls' = [calls EXCEPT ![c] =
                             [@ EXCEPT !.pc = "done", !.provider = p, !.result = r]]
          /\ bugEmbeddings' =
                InputAfterSearch(bugEmbeddings,
                                 IF calls[c].svc = "AI" THEN generateEmbeddingAI(p)
                                 ELSE generateEmbeddingGCP(p))
    /\ UNCHANGED <<provider, svc, result>>
    /\ UNCHANGED cosVars
    /\ UNCHANGED routeVars

ConcNext ==
    \/ AddSharedCandidate
    \/ \E c \in Callers : BeginCall(c)
    \/ \E c \in Callers : ResumeCall(c)

ConcSpec == Init /\ [][ConcNext]_vars

\* what the call of c returns when it runs alone on the list it was given
AloneResults(c) ==
    IF calls[c].svc = "AI"
    THEN searchSimilarBugsAI(calls[c].provider, calls[c].given)
    ELSE searchSimilarBugsGCP(calls[c].provider, calls[c].given)

\* C12: from the start of a call on, the caller's list is the list that was
\* handed in, same elements in the same order, and what a call returned is
\* what it returns running alone on that list, whatever the other call did.
C12_InputUntouchedAndCallsIndependent ==
    \A c \in Callers :
        /\ calls[c].pc # "idle" => bugEmbeddings = calls[c].given
        /\ calls[c].pc = "done" => calls[c].result \in AloneResults(c)

\* two calls that overlapped, both returned, one of them a result whose
\* order is not the order of the input
C12_Witness ==
    /\ \A c \in Callers : calls[c].pc = "done"
    /\ \E c \in Callers : calls[c].overlapped
    /\ Len(bugEmbeddings) = MaxConcCands
    /\ \E c \in Callers :
          /\ Len(calls[c].result) >= 2
          /\ calls[c].result[1].bug.id > calls[c].result[2].bug.id

----------------------------------------------------------------------------
(* Strings and request bodies *)

\* A string is the sequence of its characters.  A body field that may be
\* undefined is a record [has, str]: Missing is undefined.
Missing == [has |-> FALSE, str |-> <<>>]
Str(s) == [has |-> TRUE, str |-> s]

\* !x for a string or undefined
Falsy(x) == ~x.has \/ x.str = <<>>

\* String.prototype.trim, which the schema option trim: true applies
RECURSIVE TrimLeft(_)
TrimLeft(s) ==
    IF s # <<>> /\ Head(s) = " " THEN TrimLeft(Tail(s)) ELSE s

RECURSIVE TrimRight(_)
TrimRight(s) ==
    IF s # <<>> /\ s[Len(s)] = " " THEN TrimRight(SubSeq(s, 1, Len(s) - 1)) ELSE s

Trim(s) == TrimRight(TrimLeft(s))

\* `${title} ${description} ${solution}`
EmbeddingText(title, description, solution) ==
    title \o <<" ">> \o description \o <<" ">> \o solution

\* The embedding provider, a function of the text: here the vector of the
\* character codes, which tells any two texts apart.
CharCode(c) ==
    CASE c = " " -> 0
      [] c = "a" -> 1
      [] c = "b" -> 2
      [] c = "d" -> 3
      [] c = "e" -> 4
      [] c = "s" -> 5
      [] c = "t" -> 6

ProviderEmbedding(text) == Vec([i \in 1..Len(text) |-> CharCode(text[i])])

\* what aiService.generateEmbedding(text) resolves to in the routes
RouteEmbedding(text, providerOk) ==
    generateEmbeddingAI(IF providerOk THEN Returns(ProviderEmbedding(text))
                        ELSE Throws)

----------------------------------------------------------------------------
(* The bugs routes, one request at a time *)

\* the fields of req.body the handlers read
CreateTitles == {Missing, Str(<<>>), Str(<<"a">>), Str(<<" ", "a">>)}
CreateDescriptions == {Missing, Str(<<"d">>), Str(<<"e">>)}
CreateSolutions == {Missing, Str(<<"s">>)}

UpdateTitles == {Missing, Str(<<"b">>)}
UpdateDescriptions == {Missing, Str(<<"d">>), Str(<<"e">>)}
UpdateSolutions == {Missing, Str(<<"t">>)}

\* ids a request may name: those stored and one that is not
RequestIds == 1..(MaxBugs + 1)

\* Bug.findById(id): the document, or null
Exists(store, id) == id \in 1..Len(store)

\* title || bug.title: the value supplied unless it is falsy, or else the
\* stored one
Merged(field, stored) == IF Falsy(field) THEN stored ELSE field.str

\* router.post('/'): the whole handler
CreateBug ==
    /\ Len(bugStore) < MaxBugs
    /\ \E title \in CreateTitles, description \in CreateDescriptions,
          solution \in CreateSolutions, providerOk \in BOOLEAN, saveOk \in BOOLEAN :
          LET req == [op |-> "create", id |-> Len(bugStore) + 1,
                      title |-> title, description |-> description,
                      solution |-> solution, providerOk |-> providerOk,
                      before |-> bugStore]
              embeddingText == EmbeddingText(title.str, description.str, solution.str)
              bug == [title |-> Trim(title.str),
                      description |-> description.str,
                      solution |-> solution.str,
                      embedding |-> RouteEmbedding(embeddingText, providerOk)]
          IN  IF Falsy(title) \/ Falsy(description) \/ Falsy(solution)
              THEN /\ last' = [req EXCEPT !.providerOk = TRUE] @@ [status |-> 400]
                   /\ UNCHANGED bugStore
              ELSE IF bug.title = <<>> \/ ~saveOk
              THEN \* bug.save() throws: validation (title required) or the database
                   /\ last' = req @@ [status |-> 500]
                   /\ UNCHANGED bugStore
              ELSE /\ bugStore' = Append(bugStore, bug)
                   /\ last' = req @@ [status |-> 201]
    /\ UNCHANGED <<updates, entries, workResp, handler>>
    /\ UNCHANGED cosVars
    /\ UNCHANGED searchVars
    /\ UNCHANGED calls

\* router.put('/:id'): the status sent and the collection afterwards
UpdateOutcome(store, id, title, description, solution, providerOk, dbOk) ==
    LET regenerate == ~Falsy(title) \/ ~Falsy(description) \/ ~Falsy(solution)
    IN  IF ~dbOk THEN [status |-> 500, store |-> store]
        ELSE IF /\ regenerate
                /\ ~Exists(store, id)
                /\ Falsy(title) \/ Falsy(description) \/ Falsy(solution)
        THEN \* bug is null and bug.title, bug.description or bug.solution is
             \* read: TypeError, caught by the handler
             [status |-> 500, store |-> store]
        ELSE IF ~Exists(store, id)
        THEN \* findByIdAndUpdate returns null
             [status |-> 404, store |-> store]
        ELSE LET bug == store[id]
                 newTitle == Merged(title, bug.title)
                 newDesc == Merged(description, bug.description)
                 newSol == Merged(solution, bug.solution)
                 embedding == RouteEmbedding(EmbeddingText(newTitle, newDesc, newSol),
                                             providerOk)
                 updated == [title |-> Trim(newTitle),
                             description |-> newDesc,
                             solution |-> newSol,
                             embedding |-> IF regenerate THEN embedding
                                           ELSE bug.embedding]
             IN  [status |-> 200, store |-> [store EXCEPT ![id] = updated]]

\* router.put('/:id'): the whole handler
UpdateBug ==
    \E id \in RequestIds, title \in UpdateTitles, description \in UpdateDescriptions,
       solution \in UpdateSolutions, providerOk \in BOOLEAN, dbOk \in BOOLEAN :
       LET out == UpdateOutcome(bugStore, id, title, description, solution,
                                providerOk, dbOk)
       IN  /\ bugStore' = out.store
           /\ last' = [op |-> "update", id |-> id, title |-> title,
                       description |-> description, solution |-> solution,
                       providerOk |-> providerOk, dbOk |-> dbOk,
                       before |-> bugStore, status |-> out.status]
           /\ UNCHANGED <<updates, entries, workResp, handler>>
           /\ UNCHANGED cosVars
           /\ UNCHANGED searchVars
           /\ UNCHANGED calls

BugNext == CreateBug \/ UpdateBug

BugSpec == Init /\ [][BugNext]_vars

----------------------------------------------------------------------------
(* Properties of the bugs routes, checked under BugSpec *)

\* the last request stored a document whose embedding it generated, and
\* the provider answered
RegeneratedEmbedding ==
    /\ last.op \in {"create", "update"}
    /\ last.status \in {200, 201}
    /\ last.providerOk
    /\ ~Falsy(last.title) \/ ~Falsy(last.description) \/ ~Falsy(last.solution)

\* the text built from the stored fields of a document
StoredText(bug) == EmbeddingText(bug.title, bug.description, bug.solution)

\* C11: after a create, or an update that supplies a title, description or
\* solution, with the provider succeeding, the stored embedding is the
\* provider's embedding of the text built from the stored title,
\* description and solution.
C11_EmbeddingOfStoredText ==
    RegeneratedEmbedding =>
        bugStore[last.id].embedding = ProviderEmbedding(StoredText(bugStore[last.id]))

\* C17: an update of an id that is not stored is answered 404 and leaves
\* the collection as it was, whatever the body.
C17_UpdateOfUnknownIdIs404 ==
    (/\ last.op = "update"
     /\ last.dbOk
     /\ ~Exists(last.before, last.id))
    => /\ last.status = 404
       /\ bugStore = last.before

----------------------------------------------------------------------------
(* Two PUT /:id requests for one bug, interleaved at their awaits.  Both name
   the only stored document, bugStore[1], stored by an earlier POST /. *)

\* the clients whose updates are in flight
Updaters == {1, 2}

RaceBug ==
    [title |-> <<"a">>, description |-> <<"d">>, solution |-> <<"s">>,
     embedding |-> ProviderEmbedding(EmbeddingText(<<"a">>, <<"d">>, <<"s">>))]

IdleUpdate ==
    [pc |-> "idle", title |-> Missing, description |-> Missing,
     solution |-> Missing, embeddingText |-> <<>>, embedding |-> Absent,
     status |-> 0]

RaceInit ==
    /\ IdleCos
    /\ IdleSearch
    /\ IdleCalls
    /\ bugStore = <<RaceBug>>
    /\ last = [op |-> "none"]
    /\ updates = [u \in Updaters |-> IdleUpdate]
    /\ entries = <<>>
    /\ workResp = [op |-> "none"]
    /\ handler = [op |-> "none"]

RaceFrame ==
    /\ UNCHANGED <<last, entries, workResp, handler>>
    /\ UNCHANGED cosVars
    /\ UNCHANGED searchVars
    /\ UNCHANGED calls

\* the request arrives with a body that supplies a title, description or
\* solution, and the handler suspends at  await Bug.findById(req.params.id)
BeginUpdate(u) ==
    /\ updates[u].pc = "idle"
    /\ \E title \in UpdateTitles, description \in UpdateDescriptions,
          solution \in UpdateSolutions :
          /\ ~Falsy(title) \/ ~Falsy(description) \/ ~Falsy(solution)
          /\ updates' = [updates EXCEPT ![u] =
                            [@ EXCEPT !.pc = "finding", !.title = title,
                                      !.description = description,
                                      !.solution = solution]]
    /\ UNCHANGED bugStore
    /\ RaceFrame

\* findById resolves with the document as stored now; the handler builds the
\* text and suspends at  await aiService.generateEmbedding(embeddingText)
FoundBug(u) ==
    /\ updates[u].pc = "finding"
    /\ LET bug == bugStore[1]
           newTitle == Merged(updates[u].title, bug.title)
           newDesc == Merged(updates[u].description, bug.description)
           newSol == Merged(updates[u].solution, bug.solution)
       IN  updates' = [updates EXCEPT ![u] =
                          [@ EXCEPT !.pc = "embedding",
                                    !.embeddingText =
                                        EmbeddingText(newTitle, newDesc, newSol)]]
    /\ UNCHANGED bugStore
    /\ RaceFrame

\* the provider answers; the handler suspends at  await Bug.findByIdAndUpdate
Embedded(u) ==
    /\ updates[u].pc = "embedding"
    /\ updates' = [updates EXCEPT ![u] =
                      [@ EXCEPT !.pc = "updating",
                                !.embedding =
                                    RouteEmbedding(updates[u].embeddingText, TRUE)]]
    /\ UNCHANGED bugStore
    /\ RaceFrame

\* findByIdAndUpdate sets the supplied fields and the embedding in one
\* database operation; the handler answers 200
Updated(u) ==
    /\ updates[u].pc = "updating"
    /\ LET bug == bugStore[1]
       IN  bugStore' = [bugStore EXCEPT ![1] =
                           [title |-> Trim(Merged(updates[u].title, bug.title)),
                            description |-> Merged(updates[u].description,
                                                   bug.description),
                            solution |-> Merged(updates[u].solution, bug.solution),
                            embedding |-> updates[u].embedding]]
    /\ updates' = [updates EXCEPT ![u] = [@ EXCEPT !.pc = "done", !.status = 200]]
    /\ RaceFrame

RaceNext ==
    \/ \E u \in Updaters : BeginUpdate(u)
    \/ \E u \in Updaters : FoundBug(u)
    \/ \E u \in Updaters : Embedded(u)
    \/ \E u \in Updaters : Updated(u)

RaceSpec == RaceInit /\ [][RaceNext]_vars

\* C18: once both updates have completed, the stored embedding is the
\* embedding of the title, description and solution then stored.
C18_NoStaleEmbeddingAfterRace ==
    (\A u \in Updaters : updates[u].pc = "done")
    => bugStore[1].embedding
          = ProviderEmbedding(StoredText(bugStore[1]))

----------------------------------------------------------------------------
(* POST /search-solution: one request, step by step through its awaits *)

\* embeddings a stored bug may carry
StoredPool ==
    {Absent, Vec(<<>>), Vec(<<0, 0, 0, 0, 0>>), Vec(<<1, 0, 0, 0, 0>>),
     Vec(<<4, 3, 0, 0, 0>>), Vec(<<8, 6, 0, 0, 0>>), Vec(<<3, 9, 3, 1, 0>>)}

\* req.body.query
Queries == {Missing, Str(<<>>), Str(<<"b">>)}

\* Bug.find({ embedding: { $exists: true, $ne: [] } })
WithEmbedding(stored) ==
    SelectSeq(stored, LAMBDA bug : bug.embedding.has /\ bug.embedding.vec # <<>>)

\* a plausible slip: the context built from the matches in reverse
Context_reversed(similarBugs) ==
    [idx \in 1..Len(similarBugs) |->
        [number |-> idx,
         similarity |-> similarBugs[Len(similarBugs) + 1 - idx].similarity,
         bug |-> similarBugs[Len(similarBugs) + 1 - idx].bug.id]]

\* generateBugSolution: similarBugs.map((item, idx) => `Bug ${idx + 1} ...`),
\* the blocks of the context in the order they are joined; each block is kept
\* as its number, its similarity and the bug whose fields it prints
Context(similarBugs) ==
    [idx \in 1..Len(similarBugs) |->
        [number |-> idx,
         similarity |-> similarBugs[idx].similarity,
         bug |-> similarBugs[idx].bug.id]]

\* similarBugs.map(item => ({ bug: {id: item.bug._id, ...}, similarity }))
ResponseBugs(similarBugs) ==
    [i \in 1..Len(similarBugs) |->
        [bug |-> [id |-> similarBugs[i].bug.id],
         similarity |-> similarBugs[i].similarity]]

\* a plausible slip: the early return on an empty result left out
NoMatch_never(similarBugs) == FALSE

\* similarBugs.length === 0
NoMatch(similarBugs) == Len(similarBugs) = 0

NoResponse ==
    [status |-> 0, kind |-> "none", suggestedSolution |-> Missing,
     similarBugs |-> <<>>]

ErrorResponse(status) ==
    [status |-> status, kind |-> "error", suggestedSolution |-> Missing,
     similarBugs |-> <<>>]

\* res.json({ message, suggestedSolution: null, similarBugs: [] })
EmptyResponse ==
    [status |-> 200, kind |-> "empty", suggestedSolution |-> Missing,
     similarBugs |-> <<>>]

HandlerFrame ==
    /\ UNCHANGED <<bugStore, last, updates, entries, workResp>>
    /\ UNCHANGED cosVars
    /\ UNCHANGED <<provider, svc, result>>
    /\ UNCHANGED calls

\* a bug with its embedding is in the collection before the request
AddStoredBug ==
    /\ handler.op = "none"
    /\ Len(bugEmbeddings) < MaxStored
    /\ \E e \in StoredPool :
          bugEmbeddings' = Append(bugEmbeddings,
                                  [id |-> Len(bugEmbeddings) + 1, embedding |-> e])
    /\ UNCHANGED handler
    /\ HandlerFrame

\* the request arrives: 400 without a query, else await Bug.find(...)
SearchSolutionRequest ==
    /\ handler.op = "none"
    /\ \E query \in Queries :
          handler' = [op |-> "search-solution", query |-> query,
                      pc |-> IF Falsy(query) THEN "done" ELSE "finding",
                      allBugs |-> <<>>, log |-> <<>>, context |-> <<>>,
                      response |-> IF Falsy(query) THEN ErrorResponse(400)
                                   ELSE NoResponse]
    /\ UNCHANGED bugEmbeddings
    /\ HandlerFrame

\* Bug.find settles: 500 if it rejects, the empty answer if no bug has an
\* embedding, else await aiService.searchSimilarBugs(query, allBugs)
SearchSolutionFound ==
    /\ handler.op = "search-solution"
    /\ handler.pc = "finding"
    /\ \E findOk \in BOOLEAN :
          LET allBugs == WithEmbedding(bugEmbeddings)
          IN  handler' =
                 IF ~findOk
                 THEN [handler EXCEPT !.pc = "done", !.response = ErrorResponse(500)]
                 ELSE IF Len(allBugs) = 0
                 THEN [handler EXCEPT !.pc = "done", !.response = EmptyResponse]
                 ELSE [handler EXCEPT !.pc = "searching", !.allBugs = allBugs]
    /\ UNCHANGED bugEmbeddings
    /\ HandlerFrame

\* searchSimilarBugs returns: the empty answer if it found nothing, else
\* generateBugSolution is called, builds its context and awaits the model
SearchSolutionSearched ==
    /\ handler.op = "search-solution"
    /\ handler.pc = "searching"
    /\ \E p \in ProviderOutcomes :
       \E similarBugs \in searchSimilarBugsAI(p, handler.allBugs) :
          LET returned == [call |-> "searchSimilarBugs", value |-> similarBugs]
              invoked == [call |-> "generateBugSolution", value |-> similarBugs]
          IN  handler' =
                 IF NoMatch(similarBugs)
                 THEN [handler EXCEPT !.pc = "done",
                                      !.log = Append(@, returned),
                                      !.response = EmptyResponse]
                 ELSE [handler EXCEPT !.pc = "generating",
                                      !.log = Append(Append(@, returned), invoked),
                                      !.context = Context(similarBugs)]
    /\ UNCHANGED bugEmbeddings
    /\ HandlerFrame

\* model.generateContent settles: the answer with the text and the matches,
\* or 500 if generation failed
SearchSolutionGenerated ==
    /\ handler.op = "search-solution"
    /\ handler.pc = "generating"
    /\ \E generated \in BOOLEAN :
          LET similarBugs == handler.log[Len(handler.log)].value
          IN  handler' =
                 IF generated
                 THEN [handler EXCEPT
                          !.pc = "done",
                          !.response = [status |-> 200, kind |-> "solution",
                                        suggestedSolution |-> Str(<<"s">>),
                                        similarBugs |-> ResponseBugs(similarBugs)]]
                 ELSE [handler EXCEPT !.pc = "done", !.response = ErrorResponse(500)]
    /\ UNCHANGED bugEmbeddings
    /\ HandlerFrame

HandlerNext ==
    \/ AddStoredBug
    \/ SearchSolutionRequest
    \/ SearchSolutionFound
    \/ SearchSolutionSearched
    \/ SearchSolutionGenerated

HandlerSpec == Init /\ [][HandlerNext]_vars

----------------------------------------------------------------------------
(* Properties of POST /search-solution, checked under HandlerSpec *)

\* what searchSimilarBugs returned to the handler, if it has returned
Searched == handler.op = "search-solution" /\ Len(handler.log) > 0

Returned == handler.log[1].value

Invocations ==
    {i \in 1..Len(handler.log) : handler.log[i].call = "generateBugSolution"}

\* C13: the context handed to generation has one block per match returned by
\* the search, in the order returned and numbered from 1, highest similarity
\* first; the similarBugs of the response has the same matches in that order.
C13_ContextKeepsSearchOrder ==
    (Searched /\ handler.pc \in {"generating", "done"} /\ Returned # <<>>) =>
        /\ Len(handler.context) = Len(Returned)
        /\ \A i \in 1..Len(Returned) :
              /\ handler.context[i].number = i
              /\ handler.context[i].bug = Returned[i].bug.id
              /\ handler.context[i].similarity = Returned[i].similarity
        /\ \A i, j \in 1..Len(handler.context) :
              i < j => Ge(handler.context[i].similarity,
                          handler.context[j].similarity)
        /\ handler.response.kind = "solution" =>
              /\ Len(handler.response.similarBugs) = Len(Returned)
              /\ \A i \in 1..Len(Returned) :
                    /\ handler.response.similarBugs[i].bug.id = Returned[i].bug.id
                    /\ handler.response.similarBugs[i].similarity
                          = Returned[i].similarity

\* the request was answered with three matches, the first more similar than
\* the others and stored after the second, so that the search reordered them
C13_Witness ==
    /\ Searched
    /\ handler.pc = "done"
    /\ handler.response.kind = "solution"
    /\ Len(handler.response.similarBugs) = 3
    /\ Gt(Returned[1].similarity, Returned[2].similarity)
    /\ Returned[1].bug.id > Returned[2].bug.id

\* C15: generateBugSolution is invoked only after searchSimilarBugs has
\* returned, and only with the one to three matches it returned; when no bug
\* has an embedding or the search returns nothing, the answer is 200 with
\* suggestedSolution null and similarBugs empty and generation is not invoked.
C15_GenerationOnlyAfterNonEmptySearch ==
    handler.op = "search-solution" =>
        /\ \A i \in Invocations :
              /\ i > 1
              /\ handler.log[i - 1].call = "searchSimilarBugs"
              /\ handler.log[i].value = handler.log[i - 1].value
              /\ Len(handler.log[i].value) \in 1..3
        /\ ( /\ handler.pc \in {"generating", "done"}
             /\ handler.response.kind # "error"
             /\ \/ handler.allBugs = <<>>
                \/ Searched /\ Returned = <<>> )
           => /\ handler.pc = "done"
              /\ handler.response.status = 200
              /\ handler.response.suggestedSolution = Missing
              /\ handler.response.similarBugs = <<>>
              /\ Invocations = {}

\* a request whose search returned nothing although bugs with embeddings
\* are stored, answered without generation
C15_Witness ==
    /\ Searched
    /\ handler.pc = "done"
    /\ Len(handler.allBugs) = 4
    /\ Returned = <<>>
    /\ handler.response = EmptyResponse
    /\ Invocations = {}

----------------------------------------------------------------------------
(* POST / of the work entries, one request at a time *)

\* the fields of req.body the handler reads
WorkTitles == {Missing, Str(<<"a">>), Str(<<" ">>)}
WorkDescriptions == {Missing, Str(<<"d">>), Str(<<"e">>)}

\* error.message of the error caught at line 46
AnalysisFailed == Str(<<"a">>)
SaveFailed == Str(<<"s">>)

\* workEntry.save() validates first: title is required after trimming
ValidEntry(entry) == entry.title # <<>> /\ entry.description # <<>>

\* new WorkEntry({..., embedding, aiProcessed: true})
AnalyzedEntry(title, description, embedding) ==
    [title |-> Trim(title), description |-> description,
     embedding |-> embedding, aiProcessed |-> TRUE, processingError |-> Missing]

\* a plausible slip: the fallback entry marked as processed
FallbackEntry_processed(title, description, message) ==
    [title |-> Trim(title), description |-> description,
     embedding |-> Vec(<<>>), aiProcessed |-> TRUE, processingError |-> message]

\* new WorkEntry({..., aiProcessed: false, processingError: error.message})
FallbackEntry(title, description, message) ==
    [title |-> Trim(title), description |-> description,
     embedding |-> Vec(<<>>), aiProcessed |-> FALSE, processingError |-> message]

\* router.post('/'): the whole handler
CreateWorkEntry ==
    /\ Len(entries) < MaxEntries
    /\ \E title \in WorkTitles, description \in WorkDescriptions,
          analysisOk \in BOOLEAN, providerOk \in BOOLEAN,
          saveOk \in BOOLEAN, fallbackSaveOk \in BOOLEAN :
          LET embedding == RouteEmbedding(title.str \o <<" ">> \o description.str,
                                          providerOk)
              analyzed == AnalyzedEntry(title.str, description.str, embedding)
              saved == analysisOk /\ ValidEntry(analyzed) /\ saveOk
              fallback == FallbackEntry(title.str, description.str,
                                        IF analysisOk THEN SaveFailed
                                        ELSE AnalysisFailed)
              fallbackSaved == ValidEntry(fallback) /\ fallbackSaveOk
              req == [op |-> "create", title |-> title, description |-> description,
                      before |-> entries]
          IN  IF Falsy(title) \/ Falsy(description)
              THEN /\ workResp' = req @@ [analysisThrew |-> FALSE,
                                          saveThrew |-> FALSE,
                                          fallbackSaveThrew |-> FALSE,
                                          status |-> 400]
                   /\ UNCHANGED entries
              ELSE IF saved
              THEN /\ entries' = Append(entries, analyzed)
                   /\ workResp' = req @@ [analysisThrew |-> FALSE,
                                          saveThrew |-> FALSE,
                                          fallbackSaveThrew |-> FALSE,
                                          status |-> 201]
              ELSE IF fallbackSaved
              THEN /\ entries' = Append(entries, fallback)
                   /\ workResp' = req @@ [analysisThrew |-> ~analysisOk,
                                          saveThrew |-> analysisOk,
                                          fallbackSaveThrew |-> FALSE,
                                          status |-> 201]
              ELSE /\ UNCHANGED entries
                   /\ workResp' = req @@ [analysisThrew |-> ~analysisOk,
                                          saveThrew |-> analysisOk,
                                          fallbackSaveThrew |-> TRUE,
                                          status |-> 500]
    /\ UNCHANGED <<bugStore, last, updates, handler>>
    /\ UNCHANGED cosVars
    /\ UNCHANGED searchVars
    /\ UNCHANGED calls

WorkNext == CreateWorkEntry

WorkSpec == Init /\ [][WorkNext]_vars

----------------------------------------------------------------------------
(* Properties of the work-entry POST, checked under WorkSpec *)

\* a request with title and description has been handled
Handled ==
    /\ workResp.op = "create"
    /\ ~Falsy(workResp.title)
    /\ ~Falsy(workResp.description)

\* the request persisted exactly one entry
PersistedOne ==
    /\ Len(entries) = Len(workResp.before) + 1
    /\ SubSeq(entries, 1, Len(workResp.before)) = workResp.before

NewEntry == entries[Len(entries)]

\* C20 as stated: when analysis or the first save throws, exactly one entry
\* with aiProcessed = false and processingError set is persisted and the
\* status is 201; when neither throws exactly one entry with
\* aiProcessed = true is persisted; never more than one.
C20_SavedEvenIfProcessingFails ==
    Handled =>
        /\ PersistedOne
        /\ (workResp.analysisThrew \/ workResp.saveThrew)
              => /\ ~NewEntry.aiProcessed
                 /\ ~Falsy(NewEntry.processingError)
                 /\ workResp.status = 201
        /\ ~(workResp.analysisThrew \/ workResp.saveThrew)
              => NewEntry.aiProcessed

\* C20, amended: the same when the fallback save succeeds; when the
\* fallback save throws too, nothing is persisted and the status is 500.
C20_SavedUnlessFallbackSaveThrows ==
    Handled =>
        /\ Len(entries) <= Len(workResp.before) + 1
        /\ IF workResp.fallbackSaveThrew
           THEN /\ entries = workResp.before
                /\ workResp.status = 500
           ELSE /\ PersistedOne
                /\ workResp.status = 201
                /\ (workResp.analysisThrew \/ workResp.saveThrew)
                      => /\ ~NewEntry.aiProcessed
                         /\ ~Falsy(NewEntry.processingError)
                /\ ~(workResp.analysisThrew \/ workResp.saveThrew)
                      => /\ NewEntry.aiProcessed
                         /\ NewEntry.processingError = Missing

\* analysis threw and the fallback entry was saved beside an earlier entry
C20_Witness ==
    /\ Handled
    /\ workResp.analysisThrew
    /\ workResp.status = 201
    /\ workResp.before # <<>>
    /\ PersistedOne
    /\ ~NewEntry.aiProcessed

====
